---- MODULE Spec2Model ----
(***************************************************************************)
(* Model of bigstream/features.py: get_contexts, _stats,                   *)
(* pairwise_correlation and match_points.                                  *)
(*                                                                         *)
(* Each function is one action that takes the program from pc = "call"     *)
(* to pc = "done" (or "error" when the call raises).  The three            *)
(* specifications SpecMatch, SpecCorr and SpecCtx start from the inputs of *)
(* one function each.                                                      *)
(*                                                                         *)
(* Floating point.  The arrays match_points and pairwise_correlation work  *)
(* on are float64.  A float is modelled as an integer count of grid units: *)
(* 1.0 is One = 2^(Prec-1) units, and a finite value is representable iff  *)
(* its count has at most Prec significant bits.  Every arithmetic result   *)
(* is rounded to the nearest representable value, ties to the even         *)
(* significand, as IEEE 754 does; float64 is the case Prec = 53.  NaN and  *)
(* the infinities are the tagged values of the correlation matrix.         *)
(***************************************************************************)
EXTENDS Integers, Sequences, FiniteSets, TLC

VARIABLES
    pc,            \* "call" before the function runs, then "done" or "error"
    \* match_points
    a_pos,         \* sequence of points (3-tuples)
    b_pos,         \* sequence of points
    scores,        \* the caller's score array, N rows of M floats
    threshold,     \* the caller's threshold
    max_distance,  \* None or <<r>>
    scores0,       \* the values scores held when match_points was called
    best_indcs,    \* local best_indcs at return
    keeps,         \* local keeps at return
    ret,           \* the returned pair <<matched_a_points, matched_b_points>>
    \* pairwise_correlation
    A,             \* list of neighborhoods (2-d arrays)
    B,             \* list of neighborhoods
    corr,          \* the returned matrix
    \* get_contexts
    image,         \* 2-d array, rows and columns indexed from 0
    coords,        \* sequence of coordinates
    radius,        \* <<"int", r>> or <<"tuple", <<r0, r1>>>>
    contexts       \* the returned list

matchVars == <<a_pos, b_pos, scores, threshold, max_distance, scores0,
               best_indcs, keeps, ret>>
corrVars  == <<A, B, corr>>
ctxVars   == <<image, coords, radius, contexts>>
vars      == <<pc, matchVars, corrVars, ctxVars>>

(***************************************************************************)
(* Bounds of the model.                                                    *)
(***************************************************************************)
Prec == 3          \* significand bits of the model float
MaxN == 2          \* most points in a_pos
MaxA == 2          \* most neighborhoods in A
MaxB == 2          \* most neighborhoods in B
MaxDim == 5        \* longest image axis
MaxR == 2          \* largest radius

None == <<>>       \* Python's None

(***************************************************************************)
(* float64 arithmetic, at Prec bits.                                       *)
(***************************************************************************)
Abs(x) == IF x < 0 THEN -x ELSE x

One == 2 ^ (Prec - 1)

\* The spacing of the representable values around a / q (a >= 0, q > 0).
RECURSIVE Quantum(_, _, _)
Quantum(a, q, Q) ==
    IF a \div (q * Q) < 2 ^ Prec THEN Q ELSE Quantum(a, q, 2 * Q)

\* The representable value nearest to p / q, ties to the even significand.
RoundRat(p, q) ==
    LET a   == Abs(p)
        Q   == Quantum(a, q, 1)
        n0  == a \div (q * Q)
        rem == a - n0 * q * Q
        n   == IF 2 * rem > q * Q \/ (2 * rem = q * Q /\ n0 % 2 = 1)
               THEN n0 + 1 ELSE n0
    IN  IF p < 0 THEN -(n * Q) ELSE n * Q

FAdd(x, y) == RoundRat(x + y, 1)
FSub(x, y) == RoundRat(x - y, 1)
FMul(x, y) == RoundRat(x * y, One)

(***************************************************************************)
(* match_points                                                            *)
(***************************************************************************)
Rows(sc) == DOMAIN sc
Cols(sc) == DOMAIN sc[1]

MaxOf(S) == CHOOSE x \in S : \A y \in S : y <= x

\* np.max(scores)
np_max(sc) == MaxOf({sc[i][j] : i \in Rows(sc), j \in Cols(sc)})

\* Squared Euclidean distance of two points.
Dist2(p, q) ==
    (p[1] - q[1]) * (p[1] - q[1]) + (p[2] - q[2]) * (p[2] - q[2])
        + (p[3] - q[3]) * (p[3] - q[3])

\* A ball query that leaves out the points exactly r away.
query_ball_tree_open(a, b, r) ==
    [i \in DOMAIN a |-> {j \in DOMAIN b : Dist2(a[i], b[j]) < r * r}]

\* cKDTree(a).query_ball_tree(cKDTree(b), r): for each point of a, the
\* indices of the points of b at distance at most r.
query_ball_tree(a, b, r) ==
    [i \in DOMAIN a |-> {j \in DOMAIN b : Dist2(a[i], b[j]) <= r * r}]

\* scores[iii, fancy_index] += max_score, for every row.
boost(sc, valid_pairs, max_score) ==
    [i \in Rows(sc) |->
        [j \in Cols(sc) |->
            IF j \in valid_pairs[i] THEN FAdd(sc[i][j], max_score)
                                    ELSE sc[i][j]]]

\* np.argmax of one row: the first index of the maximum.
argmax(row) ==
    CHOOSE j \in DOMAIN row :
        /\ \A k \in DOMAIN row : row[k] <= row[j]
        /\ \A k \in DOMAIN row : k < j => row[k] < row[j]

\* A comparison that also keeps a score equal to the threshold.
above_or_equal(x, thr) == x >= thr

\* scores[...] > threshold
above(x, thr) == x > thr

\* Boolean-mask indexing that walks the mask from its last entry.
RECURSIVE mask_select_reversed(_, _)
mask_select_reversed(mask, n) ==
    IF n = 0 THEN <<>>
    ELSE (IF mask[n] THEN <<n>> ELSE <<>>) \o mask_select_reversed(mask, n - 1)

\* Boolean-mask indexing x[keeps]: the indices whose mask entry is True, in
\* increasing order.
RECURSIVE mask_select(_, _)
mask_select(mask, n) ==
    IF n = 0 THEN <<>>
    ELSE mask_select(mask, n - 1) \o (IF mask[n] THEN <<n>> ELSE <<>>)

\* p[:3]
first3(p) == <<p[1], p[2], p[3]>>

\* The locals are bound one after the other, each to its one value.
MatchPoints ==
    /\ pc = "call"
    /\ \E max_score \in {FAdd(np_max(scores), One)} :
       \E valid_pairs \in
              {IF max_distance # None
               THEN query_ball_tree(a_pos, b_pos, max_distance[1])
               ELSE [i \in DOMAIN a_pos |-> {}]} :
       \E sc \in {IF max_distance # None
                  THEN boost(scores, valid_pairs, max_score)
                  ELSE scores} :
       \E thr \in {IF max_distance # None
                   THEN FAdd(threshold, max_score)
                   ELSE threshold} :
       \E best \in {[i \in Rows(sc) |-> argmax(sc[i])]} :
       \E kp \in {[i \in DOMAIN a_pos |-> above(sc[i][best[i]], thr)]} :
       \E kept \in {mask_select(kp, Len(a_pos))} :
           /\ scores' = sc
           /\ best_indcs' = best
           /\ keeps' = kp
           /\ ret' = << [k \in 1..Len(kept) |-> first3(a_pos[kept[k]])],
                        [k \in 1..Len(kept) |-> first3(b_pos[best[kept[k]]])] >>
    /\ pc' = "done"
    /\ UNCHANGED <<a_pos, b_pos, threshold, max_distance, scores0>>
    /\ UNCHANGED <<corrVars, ctxVars>>

\* The inputs match_points is called with.
APoints    == {<<0, 0, 0>>, <<0, 1, 0>>}
BPoints    == {<<0, 0, 0>>, <<0, 0, 2>>}
BCounts    == {1, 2}
ScoreVals  == {-One, One - 1, One}
Thresholds == {-(2 * One), -One, One - 1}
Distances  == {None, <<1>>, <<2>>}

InitMatch ==
    /\ pc = "call"
    /\ \E n \in 1..MaxN, m \in BCounts :
          /\ a_pos \in [1..n -> APoints]
          /\ b_pos \in [1..m -> BPoints]
          /\ scores \in [1..n -> [1..m -> ScoreVals]]
    /\ threshold \in Thresholds
    /\ max_distance \in Distances
    /\ scores0 = scores
    /\ best_indcs = <<>>
    /\ keeps = <<>>
    /\ ret = <<>>
    /\ A = <<>> /\ B = <<>> /\ corr = <<>>
    /\ image = <<>> /\ coords = <<>> /\ radius = <<>> /\ contexts = <<>>

NextMatch == MatchPoints

SpecMatch == InitMatch /\ [][NextMatch]_vars

(***************************************************************************)
(* More float64 arithmetic: square root, division, NaN and infinity.       *)
(* A value of the correlation matrix is <<"fin", n>>, <<"nan", 0>> or      *)
(* <<"inf", s>> with s the sign.                                           *)
(***************************************************************************)
Fin(n) == <<"fin", n>>
NaN    == <<"nan", 0>>
Inf(s) == <<"inf", s>>
Sign(x) == IF x < 0 THEN -1 ELSE 1

\* The largest n with n * n <= x.
RECURSIVE ISqrtFrom(_, _)
ISqrtFrom(x, n) == IF (n + 1) * (n + 1) > x THEN n ELSE ISqrtFrom(x, n + 1)
ISqrt(x) == ISqrtFrom(x, 0)

RECURSIVE SqrtQuantum(_, _)
SqrtQuantum(x, Q) ==
    IF ISqrt(x) \div Q < 2 ^ Prec THEN Q ELSE SqrtQuantum(x, 2 * Q)

\* np.sqrt of a finite float: NaN for a negative one, else the representable
\* value nearest to the root.
FSqrt(v) ==
    IF v < 0 THEN NaN
    ELSE LET x  == v * One
             Q  == SqrtQuantum(x, 1)
             n0 == ISqrt(x \div (Q * Q))
             h  == (2 * n0 + 1) * (2 * n0 + 1) * Q * Q
             n  == IF 4 * x > h \/ (4 * x = h /\ n0 % 2 = 1)
                   THEN n0 + 1 ELSE n0
         IN  Fin(n * Q)

\* x / y on float64 values: 0/0 and anything with NaN is NaN, a nonzero
\* value over 0 is an infinity.
FDiv(x, y) ==
    IF x[1] = "nan" \/ y[1] = "nan" THEN NaN
    ELSE IF x[1] = "inf"
         THEN IF y[1] = "inf" THEN NaN ELSE Inf(x[2] * Sign(y[2]))
    ELSE IF y[1] = "inf" THEN Fin(0)
    ELSE IF y[2] = 0
         THEN IF x[2] = 0 THEN NaN ELSE Inf(Sign(x[2]))
    ELSE Fin(Sign(y[2]) * RoundRat(x[2] * One, Abs(y[2])))

np_isnan(x) == x[1] = "nan"

(***************************************************************************)
(* _stats and pairwise_correlation                                         *)
(***************************************************************************)
\* a.flatten() of a 2-d array: its rows one after the other.
RECURSIVE flatten_rows(_, _)
flatten_rows(a, n) ==
    IF n = 0 THEN <<>> ELSE flatten_rows(a, n - 1) \o a[n]
flatten(a) == flatten_rows(a, Len(a))

\* np.array(list of 1-d arrays) gives a 2-d float array only when the rows
\* have one length; a ragged list raises, there or in _stats.
Ragged(con) == \E i, k \in DOMAIN con : Len(con[i]) # Len(con[k])

\* np.matmul(a_con, b_con.T) raises when the rows of a_con and of b_con
\* differ in length.
Raises(a_flat, b_flat) ==
    Ragged(a_flat) \/ Ragged(b_flat) \/ Len(a_flat[1]) # Len(b_flat[1])

\* The sum of v[1..n], each partial sum rounded.
RECURSIVE FSum(_, _)
FSum(v, n) == IF n = 0 THEN 0 ELSE FAdd(FSum(v, n - 1), v[n])

\* np.mean of one row.
np_mean(v) == RoundRat(FSum(v, Len(v)), Len(v))

np_square(v) == [k \in DOMAIN v |-> FMul(v[k], v[k])]

\* _stats(arr): the mean and the standard deviation of every row.
stats_means(arr) == [i \in DOMAIN arr |-> np_mean(arr[i])]
stats_stddevs(arr) ==
    [i \in DOMAIN arr |->
        FSqrt(FSub(np_mean(np_square(arr[i])),
                   FMul(np_mean(arr[i]), np_mean(arr[i]))))]

\* a_con - a_mean[..., None]
center(con, mean) ==
    [i \in DOMAIN con |-> [k \in DOMAIN con[i] |-> FSub(con[i][k], mean[i])]]

\* One entry of np.matmul(a_con, b_con.T).
RECURSIVE dot(_, _, _)
dot(u, v, n) ==
    IF n = 0 THEN 0 ELSE FAdd(dot(u, v, n - 1), FMul(u[n], v[n]))

\* corr[np.isnan(corr)] = 0
nan_to_zero(x) == IF np_isnan(x) THEN Fin(0) ELSE x

\* One entry of the result: the three divisions, then the NaN replacement.
corr_entry(d, a_std_i, b_std_j, L) ==
    nan_to_zero(FDiv(FDiv(FDiv(Fin(d), a_std_i), b_std_j), Fin(L * One)))

PairwiseCorrelation ==
    /\ pc = "call"
    /\ \E a_flat \in {[i \in DOMAIN A |-> flatten(A[i])]} :
       \E b_flat \in {[j \in DOMAIN B |-> flatten(B[j])]} :
           \/ /\ Raises(a_flat, b_flat)
              /\ pc' = "error"
              /\ corr' = corr
           \/ /\ ~Raises(a_flat, b_flat)
              /\ \E a_mean \in {stats_means(a_flat)} :
                 \E a_std \in {stats_stddevs(a_flat)} :
                 \E b_mean \in {stats_means(b_flat)} :
                 \E b_std \in {stats_stddevs(b_flat)} :
                 \E a_con \in {center(a_flat, a_mean)} :
                 \E b_con \in {center(b_flat, b_mean)} :
                     corr' = [i \in DOMAIN A |->
                                [j \in DOMAIN B |->
                                    corr_entry(dot(a_con[i], b_con[j],
                                                   Len(a_con[1])),
                                               a_std[i], b_std[j],
                                               Len(a_con[1]))]]
              /\ pc' = "done"
    /\ UNCHANGED <<A, B>>
    /\ UNCHANGED <<matchVars, ctxVars>>

\* The inputs pairwise_correlation is called with: neighborhoods of shape
\* (1,3), (3,1) and (1,2) over two pixel values.
PixelVals == {0, One + One \div 2}
Neighborhoods ==
    [1..1 -> [1..3 -> PixelVals]] \cup [1..3 -> [1..1 -> PixelVals]]
        \cup [1..1 -> [1..2 -> PixelVals]]

InitCorr ==
    /\ pc = "call"
    /\ \E n \in 1..MaxA : A \in [1..n -> Neighborhoods]
    /\ \E m \in 1..MaxB : B \in [1..m -> Neighborhoods]
    /\ corr = <<>>
    /\ a_pos = <<>> /\ b_pos = <<>> /\ scores = <<>> /\ threshold = 0
    /\ max_distance = None /\ scores0 = <<>> /\ best_indcs = <<>>
    /\ keeps = <<>> /\ ret = <<>>
    /\ image = <<>> /\ coords = <<>> /\ radius = <<>> /\ contexts = <<>>

NextCorr == PairwiseCorrelation

SpecCorr == InitCorr /\ [][NextCorr]_vars

(***************************************************************************)
(* get_contexts                                                            *)
(***************************************************************************)
Min2(x, y) == IF x < y THEN x ELSE y
Max2(x, y) == IF x > y THEN x ELSE y

\* image.ndim and image.shape of a 2-d array indexed from 0.
ndim(img) == 2
axis_len(img, ax) ==
    IF ax = 1 THEN Cardinality(DOMAIN img) ELSE Cardinality(DOMAIN img[0])

\* A slice that clamps a negative start to 0 instead of counting it from
\* the end of the axis.
py_slice_clamped(start, stop, n) ==
    LET lo == Min2(Max2(start, 0), n)
        hi == Min2(Max2(stop, 0), n)
    IN  [k \in 1..(hi - lo) |-> lo + k - 1]

\* The indices a[start:stop] selects on an axis of length n: Python counts a
\* negative bound from the end of the axis, then clips both bounds to 0..n.
py_slice(start, stop, n) ==
    LET lo == IF start < 0 THEN Max2(start + n, 0) ELSE Min2(start, n)
        hi == IF stop < 0 THEN Max2(stop + n, 0) ELSE Min2(stop, n)
    IN  [k \in 1..(hi - lo) |-> lo + k - 1]

\* if isinstance(radius, int): radius = (radius,) * image.ndim
radius_tuple(rad, img) ==
    IF rad[1] = "int" THEN [ax \in 1..ndim(img) |-> rad[2]] ELSE rad[2]

\* A slice that stops one index early.
crop_slice_short(x, r) == <<x - r, x + r>>

\* slice(int(x - r), int(x + r + 1))
crop_slice(x, r) == <<x - r, x + r + 1>>

\* image[crop]: the shape and the values of the cropped array.
crop_image(img, coord, rad) ==
    LET s1 == crop_slice(coord[1], rad[1])
        s2 == crop_slice(coord[2], rad[2])
        i1 == py_slice(s1[1], s1[2], axis_len(img, 1))
        i2 == py_slice(s2[1], s2[2], axis_len(img, 2))
    IN  [shape |-> <<Len(i1), Len(i2)>>,
         vals  |-> [p \in 1..Len(i1) |->
                      [q \in 1..Len(i2) |-> img[i1[p]][i2[q]]]]]

GetContexts ==
    /\ pc = "call"
    /\ \E rad \in {radius_tuple(radius, image)} :
           contexts' = [k \in 1..Len(coords) |->
                           crop_image(image, coords[k], rad)]
    /\ pc' = "done"
    /\ UNCHANGED <<image, coords, radius>>
    /\ UNCHANGED <<matchVars, corrVars>>

\* The inputs get_contexts is called with: an image whose pixels all differ,
\* one or two coordinates inside it, a scalar or a per-axis radius.
CoordCounts == {1, 2}
Image(n1, n2) == [i \in 0..(n1 - 1) |-> [j \in 0..(n2 - 1) |-> i * n2 + j]]
Radii ==
    {<<"int", r>> : r \in 0..MaxR}
        \cup {<<"tuple", <<r1, r2>>>> : r1 \in 0..MaxR, r2 \in 0..MaxR}

InitCtx ==
    /\ pc = "call"
    /\ \E n1 \in 1..MaxDim, n2 \in 1..MaxDim, c \in CoordCounts :
          /\ image = Image(n1, n2)
          /\ coords \in [1..c -> (0..(n1 - 1)) \X (0..(n2 - 1))]
    /\ radius \in Radii
    /\ contexts = <<>>
    /\ a_pos = <<>> /\ b_pos = <<>> /\ scores = <<>> /\ threshold = 0
    /\ max_distance = None /\ scores0 = <<>> /\ best_indcs = <<>>
    /\ keeps = <<>> /\ ret = <<>>
    /\ A = <<>> /\ B = <<>> /\ corr = <<>>

NextCtx == GetContexts

SpecCtx == InitCtx /\ [][NextCtx]_vars

(***************************************************************************)
(* Claims about match_points (under SpecMatch).                            *)
(***************************************************************************)
Returned == pc = "done"
Gated    == max_distance # None
N        == Len(a_pos)
M        == Len(b_pos)

\* B[j] lies within max_distance of A[i].
InRange(i, j) ==
    Dist2(a_pos[i], b_pos[j]) <= max_distance[1] * max_distance[1]

\* The elements of a finite set of integers in increasing order.
Ascending(S) ==
    CHOOSE f \in [1..Cardinality(S) -> S] :
        \A k, l \in 1..Cardinality(S) : k < l => f[k] < f[l]

\* The smallest column of row i, among the columns J, that attains the
\* highest original score of those columns.
FirstBest(i, J) ==
    CHOOSE j \in J :
        /\ \A k \in J : scores0[i][k] <= scores0[i][j]
        /\ \A k \in J : k < j => scores0[i][k] < scores0[i][j]

\* C1: with max_distance given, no returned pair (A[i], B[j]) is further
\* apart than max_distance, whatever the scores and the threshold.
C1_NoPairOutOfRange ==
    (Returned /\ Gated) =>
        \A k \in 1..Len(ret[1]) :
            Dist2(ret[1][k], ret[2][k]) <= max_distance[1] * max_distance[1]

C3_Cardinality ==
    Returned =>
        /\ Len(ret[1]) = Len(ret[2])
        /\ Len(ret[1]) <= N
        /\ \E f \in [1..Len(ret[1]) -> 1..N] :
              /\ \A k, l \in 1..Len(ret[1]) : k < l => f[k] < f[l]
              /\ \A i \in 1..N : keeps[i] <=> \E k \in 1..Len(ret[1]) : f[k] = i
              /\ \A k \in 1..Len(ret[1]) :
                    /\ ret[1][k] = a_pos[f[k]]
                    /\ ret[2][k] = b_pos[best_indcs[f[k]]]

\* Two different A-points are both returned, with the same B-point.
C3_Witness ==
    /\ Returned /\ N = 2 /\ Len(ret[1]) = 2
    /\ a_pos[1] # a_pos[2]
    /\ best_indcs[1] = best_indcs[2]
    /\ ret[2][1] = ret[2][2]

\* C4: a call leaves a_pos and b_pos as they were; it leaves scores as they
\* were when max_distance is None, and otherwise adds max(scores) + 1 to
\* exactly the entries (i, j) with B[j] within max_distance of A[i].
C4_Frame ==
    [][(pc = "call" /\ pc' = "done") =>
          /\ a_pos' = a_pos
          /\ b_pos' = b_pos
          /\ ~Gated => scores' = scores
          /\ Gated =>
                \A i \in 1..N, j \in 1..M :
                    scores'[i][j] =
                        IF InRange(i, j)
                        THEN FAdd(scores[i][j], FAdd(np_max(scores), One))
                        ELSE scores[i][j]]_vars

\* A gated call returned with one pair at exactly max_distance, raised, and
\* one pair out of range, untouched.
C4_Witness ==
    /\ Returned /\ Gated
    /\ \E i \in 1..N, j \in 1..M :
          /\ Dist2(a_pos[i], b_pos[j]) = max_distance[1] * max_distance[1]
          /\ scores[i][j] # scores0[i][j]
    /\ \E i \in 1..N, j \in 1..M : ~InRange(i, j) /\ scores[i][j] = scores0[i][j]

\* C10: with max_distance given, scores in [-1, 1] and threshold >= -1, the
\* result is that of the mask-based matcher: A-point i is returned iff some
\* in-range B[j] has an original score above the original threshold, paired
\* with the first in-range B[j] of highest original score.
C10_MaskEquivalent ==
    (/\ Returned /\ Gated
     /\ \A i \in 1..N, j \in 1..M : -One <= scores0[i][j] /\ scores0[i][j] <= One
     /\ threshold >= -One) =>
        LET near(i) == {j \in 1..M : InRange(i, j)}
            hit     == {i \in 1..N :
                           \E j \in near(i) : scores0[i][j] > threshold}
            rows    == Ascending(hit)
        IN  /\ ret[1] = [k \in 1..Cardinality(hit) |-> a_pos[rows[k]]]
            /\ ret[2] = [k \in 1..Cardinality(hit) |->
                            b_pos[FirstBest(rows[k], near(rows[k]))]]

(***************************************************************************)
(* Claims about pairwise_correlation (under SpecCorr).                     *)
(***************************************************************************)
\* The shape of a 2-d neighborhood.
shape(a) == <<Len(a), Len(a[1])>>

\* C6: pairwise_correlation raises, and returns no matrix, whenever the
\* neighborhoods of A and B do not all have one shape.
C6_ShapeMismatchRaises ==
    (/\ pc # "call"
     /\ \E x, y \in {A[i] : i \in DOMAIN A} \cup {B[j] : j \in DOMAIN B} :
           shape(x) # shape(y)) =>
        pc = "error" /\ corr = <<>>

IsConstant(a) == \A k, l \in DOMAIN flatten(a) : flatten(a)[k] = flatten(a)[l]

\* C7: when A[i] or B[j] is constant, entry (i, j) of the result is exactly
\* 0; no entry of the result is NaN.
C7_FlatIsZero ==
    pc = "done" =>
        \A i \in DOMAIN A, j \in DOMAIN B :
            /\ ~np_isnan(corr[i][j])
            /\ (IsConstant(A[i]) \/ IsConstant(B[j])) => corr[i][j] = Fin(0)

(***************************************************************************)
(* Claims about get_contexts (under SpecCtx).                              *)
(***************************************************************************)
\* The radius the caller asked for on axis ax.
R(ax) == IF radius[1] = "int" THEN radius[2] ELSE radius[2][ax]

\* The image values at the rows lo1..hi1 and the columns lo2..hi2.
Window(lo1, hi1, lo2, hi2) ==
    [shape |-> <<Max2(hi1 - lo1 + 1, 0), Max2(hi2 - lo2 + 1, 0)>>,
     vals  |-> [p \in 1..(hi1 - lo1 + 1) |->
                  [q \in 1..(hi2 - lo2 + 1) |->
                      image[lo1 + p - 1][lo2 + q - 1]]]]

Interior(c, ax) == c[ax] - R(ax) >= 0 /\ c[ax] + R(ax) <= axis_len(image, ax) - 1

\* C8: one neighborhood per coordinate, in the order of coords; for a
\* coordinate at least r from both ends of every axis the neighborhood holds
\* the image values at c-r .. c+r on each axis, 2r+1 of them.
C8_InteriorWindow ==
    pc = "done" =>
        /\ Len(contexts) = Len(coords)
        /\ \A k \in 1..Len(coords) :
              LET c == coords[k]
              IN  (Interior(c, 1) /\ Interior(c, 2)) =>
                      /\ contexts[k].shape = <<2 * R(1) + 1, 2 * R(2) + 1>>
                      /\ contexts[k] = Window(c[1] - R(1), c[1] + R(1),
                                              c[2] - R(2), c[2] + R(2))

\* Two coordinates, the second interior under a per-axis radius that differs
\* between the axes.
C8_Witness ==
    /\ pc = "done" /\ Len(coords) = 2 /\ coords[1] # coords[2]
    /\ radius[1] = "tuple" /\ R(1) > R(2) /\ R(2) > 0
    /\ Interior(coords[2], 1) /\ Interior(coords[2], 2)

\* C9 as stated: for a coordinate closer than r to an edge the neighborhood
\* is the window c-r .. c+r cut to the indices of the image,
\* max(0, c-r) .. min(n-1, c+r) on each axis, and it is never empty.
C9_TruncatedAtBothEdges ==
    pc = "done" =>
        \A k \in 1..Len(coords) :
            LET c == coords[k]
            IN  ~(Interior(c, 1) /\ Interior(c, 2)) =>
                    /\ contexts[k] =
                          Window(Max2(0, c[1] - R(1)),
                                 Min2(axis_len(image, 1) - 1, c[1] + R(1)),
                                 Max2(0, c[2] - R(2)),
                                 Min2(axis_len(image, 2) - 1, c[2] + R(2)))
                    /\ contexts[k].shape[1] > 0
                    /\ contexts[k].shape[2] > 0

\* The first index of the window on axis ax: c-r, counted from the end of
\* the axis when it is negative.
Lo(c, ax) ==
    IF c[ax] >= R(ax) THEN c[ax] - R(ax)
    ELSE Max2(0, axis_len(image, ax) + c[ax] - R(ax))
Hi(c, ax) == Min2(axis_len(image, ax) - 1, c[ax] + R(ax))

\* C9, as the code behaves: for a coordinate closer than r to an edge the
\* call returns, and on each axis the window stops at min(n-1, c+r); it starts at c-r
\* when c >= r, and at max(0, n+c-r) when c < r.  So a coordinate near the
\* high edge only gets the truncated window c-r .. n-1, which is not empty,
\* and an axis with c < r and n >= 2r+1 gets no index at all.
C9_EdgeWindow ==
    pc = "done" =>
        \A k \in 1..Len(coords) :
            LET c == coords[k]
            IN  ~(Interior(c, 1) /\ Interior(c, 2)) =>
                    /\ contexts[k] = Window(Lo(c, 1), Hi(c, 1), Lo(c, 2), Hi(c, 2))
                    /\ \A ax \in 1..2 :
                          /\ c[ax] >= R(ax) => contexts[k].shape[ax] > 0
                          /\ (c[ax] < R(ax)
                                /\ axis_len(image, ax) >= 2 * R(ax) + 1) =>
                                 contexts[k].shape[ax] = 0

\* One coordinate near the high edge only, with a truncated window, and one
\* near the low edge, with an empty window.
C9_Witness ==
    /\ pc = "done" /\ Len(coords) = 2
    /\ LET c == coords[1]
       IN  /\ c[1] >= R(1) /\ c[2] >= R(2)
           /\ c[1] + R(1) > axis_len(image, 1) - 1
           /\ contexts[1].shape[1] = axis_len(image, 1) - c[1] + R(1)
           /\ contexts[1].shape[2] > 0
    /\ LET c == coords[2]
       IN  /\ c[1] < R(1)
           /\ contexts[2].shape[1] = 0

====
